---- MODULE Spec2Model ----
(***************************************************************************)
(* Mirror status aggregation of archweb (mirrors/utils.py).                *)
(*                                                                         *)
(* The database is three tables: Mirror, MirrorUrl and MirrorLog.  The     *)
(* mirror checker appends MirrorLog rows; get_mirror_statuses,             *)
(* get_mirror_errors and get_mirror_url_for_download read them.  A call's  *)
(* arguments and its return value (or the exception it raises) are kept in *)
(* `call` and `result` for as long as the database and the clock stay as   *)
(* they were when the call ran.                                            *)
(*                                                                         *)
(* Time is counted in units of five minutes.  A nullable column or an      *)
(* optional value is None (the empty tuple) or Some(v) (a 1-tuple).        *)
(* Floats are exact rationals <<numerator, denominator>>, denominator > 0, *)
(* in lowest terms; only the square root of StdDev is rounded.             *)
(***************************************************************************)
EXTENDS Integers, Sequences, FiniteSets, Bags, TLC

VARIABLES now, mirrors, urls, logs, call, result

vars == <<now, mirrors, urls, logs, call, result>>

\* Bounds of the model.
MaxLogs == 3
MaxTime == 2
MaxChecks == 250

----------------------------------------------------------------------------
\* Optional values.

None == <<>>
Some(x) == <<x>>
Get(o) == o[1]

\* Python truthiness of an optional integer argument: None and 0 are falsy.
Truthy(o) == o # None /\ Get(o) # 0

----------------------------------------------------------------------------
\* Rationals.

Abs(n) == IF n < 0 THEN -n ELSE n

RECURSIVE Gcd(_, _)
Gcd(a, b) == IF b = 0 THEN a ELSE Gcd(b, a % b)

Rat(n, d) == LET g == Gcd(Abs(n), d) IN <<n \div g, d \div g>>

RatAdd(p, q) == Rat(p[1] * q[2] + q[1] * p[2], p[2] * q[2])

\* p / q for q > 0.
RatDiv(p, q) == Rat(p[1] * q[2], p[2] * q[1])

RatLess(p, q) == p[1] * q[2] < q[1] * p[2]

RatZero == <<0, 1>>

\* Largest k in lo..hi with k * k <= x (lo * lo <= x).
RECURSIVE ISqrtIn(_, _, _)
ISqrtIn(x, lo, hi) ==
    IF lo = hi THEN lo
    ELSE LET mid == (lo + hi + 1) \div 2
         IN IF mid * mid <= x THEN ISqrtIn(x, mid, hi)
                              ELSE ISqrtIn(x, lo, mid - 1)

ISqrt(x) == ISqrtIn(x, 0, 46340)

----------------------------------------------------------------------------
\* Times and timedeltas.

SecondsPerUnit == 5 * 60

\* timedelta(minutes=5) and timedelta(minutes=20), in units.
FIVE_MINUTES == 1
TWENTY_MINUTES == 4

\* The timedelta of secNum / secDen seconds (secDen > 0), normalised as
\* Python does: 0 <= seconds < 86400, 0 <= microseconds < 1000000.
timedelta(secNum, secDen) ==
    LET whole == secNum \div secDen
        frac == secNum % secDen
    IN [days |-> whole \div 86400,
        seconds |-> whole % 86400,
        microseconds |-> (frac * 1000000) \div secDen]

\* url.delay.days * 24.0 + url.delay.seconds / 3600.0: the microseconds of
\* the delay do not count.
Hours(delay) == Rat(delay.days * 86400 + delay.seconds, 3600)

----------------------------------------------------------------------------
\* The tables.

MirrorIds == {1, 2}
UrlIds == {1, 2, 3}

\* MirrorProtocol: http is the default protocol, rsync is not.
Protocols == {"http", "rsync"}
ProtocolDefault(p) == p = "http"

MirrorRows == [active : BOOLEAN, public : BOOLEAN, tier : {1, 2}]

\* MirrorUrl.url is unique; it is kept as its rank in the collation order.
UrlOfMirror == [u \in UrlIds |-> IF u = 3 THEN 2 ELSE 1]
UrlRank == [u \in UrlIds |-> IF u = 1 THEN 2 ELSE IF u = 2 THEN 1 ELSE 3]

\* The MirrorLog row of a check of url u at time t.  An outcome gives
\* is_success, the duration, the age of the mirror's last sync at the check
\* (its lag, from which last_sync = t - lag) and the error message; a
\* duration, a lag or an error of None leaves the column NULL.
MirrorLog(u, t, outcome) ==
    [url |-> u,
     check_time |-> t,
     is_success |-> outcome.is_success,
     duration |-> outcome.duration,
     last_sync |-> IF outcome.lag = None THEN None
                   ELSE Some(t - Get(outcome.lag)),
     error |-> outcome.error]

Outcome(is_success, duration, lag, error) ==
    [is_success |-> is_success, duration |-> duration, lag |-> lag,
     error |-> error]

Rows == BagToSet(logs)

Mirror(u) == mirrors[urls[u].mirror_id]

----------------------------------------------------------------------------
\* Aggregates over a set S of distinct rows of the bag `logs`.

RECURSIVE SumFn(_, _)
SumFn(S, f) ==
    IF S = {} THEN 0
    ELSE LET l == CHOOSE x \in S : TRUE
         IN f[l] + SumFn(S \ {l}, f)

MaxInt(S) == CHOOSE m \in S : \A x \in S : x <= m
MinInt(S) == CHOOSE m \in S : \A x \in S : m <= x

\* Count('logs')
Count(S) == SumFn(S, [l \in S |-> logs[l]])

\* Count('logs') in the place of Count('logs__duration').
CountDurationAll(S) == Count(S)

\* Count(column): the rows whose column is not NULL.
CountDuration(S) == Count({l \in S : l.duration # None})
CountError(S) == Count({l \in S : l.error # None})

\* Max(column) and Min(column): NULL when no row has a value.
MaxCheckTime(S) ==
    IF S = {} THEN None ELSE Some(MaxInt({l.check_time : l \in S}))
MinCheckTime(S) ==
    IF S = {} THEN None ELSE Some(MinInt({l.check_time : l \in S}))
MaxLastSync(S) ==
    LET V == {Get(l.last_sync) : l \in {x \in S : x.last_sync # None}}
    IN IF V = {} THEN None ELSE Some(MaxInt(V))

\* Avg('logs__duration'): NULL when no row has a duration.
AvgDuration(S) ==
    LET D == {l \in S : l.duration # None}
    IN IF D = {} THEN None
       ELSE Some(Rat(SumFn(D, [l \in D |-> logs[l] * Get(l.duration)]),
                     Count(D)))

\* StdDev('logs__duration'), the population standard deviation: NULL when
\* no row has a duration.  The square root is rounded down to 1/1000.
StdDevDuration(S) ==
    LET D == {l \in S : l.duration # None}
        n == Count(D)
        s == SumFn(D, [l \in D |-> logs[l] * Get(l.duration)])
        q == SumFn(D, [l \in D |-> logs[l] * Get(l.duration) * Get(l.duration)])
    IN IF D = {} THEN None
       ELSE Some(Rat(ISqrt((n * q - s * s) * 1000000), n * 1000))

----------------------------------------------------------------------------
\* Mirror status.

\* 0.05 in the place of 0.005.
SMALL_DIVISOR_tenfold == <<5, 100>>

\* The fixed small divisor of a URL with no successful check: 0.005.
SMALL_DIVISOR == <<5, 1000>>

\* annotate_url(url, delay): the url with completion_pct, delay and score,
\* or the exception the arithmetic raises.
annotate_url(url, delay) ==
    IF url.check_count = 0 THEN [exc |-> "ZeroDivisionError"]
    ELSE LET completion_pct == Rat(url.success_count, url.check_count)
             divisor == IF RatLess(RatZero, completion_pct)
                        THEN completion_pct ELSE SMALL_DIVISOR
         IN IF delay = None
            THEN url @@ [exc |-> "", completion_pct |-> completion_pct,
                         delay |-> None, score |-> None]
            ELSE IF url.duration_avg = None \/ url.duration_stddev = None
            THEN [exc |-> "TypeError"]
            ELSE url @@ [exc |-> "", completion_pct |-> completion_pct,
                         delay |-> delay,
                         score |-> Some(RatDiv(
                             RatAdd(RatAdd(Hours(Get(delay)),
                                           Get(url.duration_avg)),
                                    Get(url.duration_stddev)),
                             divisor))]

\* url_delays(cutoff_time, mirror_id): url_id -> AVG(check_time - last_sync)
\* over the successful checks since cutoff_time that have a last_sync.
url_delays(cutoff_time, mirror_id) ==
    LET S == {l \in Rows :
                /\ l.is_success
                /\ l.check_time >= cutoff_time
                /\ l.last_sync # None
                /\ mirror_id # None => urls[l.url].mirror_id = Get(mirror_id)}
        Of(u) == {l \in S : l.url = u}
    IN [u \in {l.url : l \in S} |->
          timedelta(SumFn(Of(u), [l \in Of(u) |->
                        logs[l] * (l.check_time - Get(l.last_sync))])
                      * SecondsPerUnit,
                    Count(Of(u)))]

\* valid_urls without mirror__active=True.
valid_urls_inactive_too(cutoff_time, mirror_id) ==
    {u \in UrlIds :
        /\ Mirror(u).public
        /\ \E l \in Rows : l.url = u /\ l.check_time >= cutoff_time
        /\ Truthy(mirror_id) => urls[u].mirror_id = Get(mirror_id)}

\* The MirrorUrls of active, public mirrors with a log since cutoff_time (of
\* the given mirror, when one is given).
valid_urls(cutoff_time, mirror_id) ==
    {u \in UrlIds :
        /\ Mirror(u).active
        /\ Mirror(u).public
        /\ \E l \in Rows : l.url = u /\ l.check_time >= cutoff_time
        /\ Truthy(mirror_id) => urls[u].mirror_id = Get(mirror_id)}

\* The annotated values of one valid url.
url_data(u, cutoff_time, vendor) ==
    LET L == {l \in Rows : l.url = u /\ l.check_time >= cutoff_time}
    IN [id |-> u,
        mirror_id |-> urls[u].mirror_id,
        check_count |-> Count(L),
        success_count |-> CountDuration(L),
        last_sync |-> MaxLastSync(L),
        last_check |-> Get(MaxCheckTime(L)),
        duration_avg |-> AvgDuration(L),
        duration_stddev |-> IF vendor = "sqlite" THEN Some(RatZero)
                            ELSE StdDevDuration(L)]

\* order_by('mirror__id', 'url')
UrlBefore(u, v) ==
    \/ urls[u].mirror_id < urls[v].mirror_id
    \/ urls[u].mirror_id = urls[v].mirror_id /\ urls[u].url < urls[v].url

OrderUrls(S) ==
    CHOOSE s \in [1..Cardinality(S) -> S] :
        \A i, j \in 1..Cardinality(S) : i < j => UrlBefore(s[i], s[j])

\* check_info without the filter on the mirror.
check_info_all_mirrors(cutoff_time, mirror_id) ==
    LET S == {l \in Rows : l.check_time >= cutoff_time}
    IN [mn |-> MinCheckTime(S), mx |-> MaxCheckTime(S)]

\* check_info: the first and the last check since cutoff_time (of the given
\* mirror, when one is given).
check_info(cutoff_time, mirror_id) ==
    LET S == {l \in Rows :
                /\ l.check_time >= cutoff_time
                /\ Truthy(mirror_id) => urls[l.url].mirror_id = Get(mirror_id)}
    IN [mn |-> MinCheckTime(S), mx |-> MaxCheckTime(S)]

get_mirror_statuses(cutoff, mirror_id, vendor) ==
    LET cutoff_time == now - cutoff
        ordered == OrderUrls(valid_urls(cutoff_time, mirror_id))
        delays == url_delays(cutoff_time, mirror_id)
        annotated ==
            [i \in DOMAIN ordered |->
                annotate_url(url_data(ordered[i], cutoff_time, vendor),
                             IF ordered[i] \in DOMAIN delays
                             THEN Some(delays[ordered[i]]) ELSE None)]
        raising == {i \in DOMAIN ordered : annotated[i].exc # ""}
        num_checks ==
            IF ordered = <<>> THEN 0
            ELSE MaxInt({annotated[i].check_count : i \in DOMAIN ordered})
        info == check_info(cutoff_time, mirror_id)
    IN IF raising # {}
       THEN [exc |-> annotated[MinInt(raising)].exc]
       ELSE [exc |-> "",
             cutoff |-> cutoff,
             last_check |->
                IF ordered = <<>> THEN None
                ELSE Some(MaxInt({annotated[i].last_check :
                                    i \in DOMAIN ordered})),
             num_checks |-> num_checks,
             check_frequency |->
                IF num_checks > 1
                THEN Some(timedelta((Get(info.mx) - Get(info.mn))
                                       * SecondsPerUnit,
                                    num_checks - 1))
                ELSE None,
             urls |-> annotated]

----------------------------------------------------------------------------
\* Mirror errors.

\* The values('url__url', 'url__country', 'url__protocol__protocol',
\* 'url__mirror__tier', 'error') of a log: the key its row is grouped by.
ErrorKey(l) ==
    [url__url |-> urls[l.url].url,
     url__country |-> urls[l.url].country,
     url__protocol__protocol |-> urls[l.url].protocol,
     url__mirror__tier |-> Mirror(l.url).tier,
     error |-> l.error]

\* Country(code)
Country(code) == [code |-> code]

\* order_by('-last_occurred', '-error_count')
ErrorBefore(a, b) ==
    \/ a.last_occurred > b.last_occurred
    \/ a.last_occurred = b.last_occurred /\ a.error_count >= b.error_count

\* The grouped, annotated rows of the errors query.
ErrorRows(cutoff_time) ==
    LET F == {l \in Rows :
                /\ ~l.is_success
                /\ l.check_time >= cutoff_time
                /\ Mirror(l.url).active
                /\ Mirror(l.url).public}
        Of(k) == {l \in F : ErrorKey(l) = k}
    IN {k @@ [error_count |-> CountError(Of(k)),
              last_occurred |-> Get(MaxCheckTime(Of(k))),
              country |-> Country(k.url__country)] :
            k \in {ErrorKey(l) : l \in F}}

\* Every value get_mirror_errors can return: the rows in any order the
\* ordering allows, or the exception of the mirror_id branch, which reads
\* the local `urls` that is never assigned.
get_mirror_errors(cutoff, mirror_id) ==
    LET G == ErrorRows(now - cutoff)
        n == Cardinality(G)
    IN IF Truthy(mirror_id)
       THEN {[exc |-> "UnboundLocalError"]}
       ELSE {[exc |-> "", errors |-> s] :
                s \in {t \in [1..n -> G] :
                         /\ \A i, j \in 1..n : i # j => t[i] # t[j]
                         /\ \A i, j \in 1..n : i < j => ErrorBefore(t[i], t[j])}}

----------------------------------------------------------------------------
\* The download URL.

\* order_by('duration'): NULL sorts after every value on PostgreSQL and
\* before every value elsewhere.
DurationBefore(a, b, vendor) ==
    IF a.duration = None
    THEN b.duration = None \/ vendor # "postgresql"
    ELSE IF b.duration = None
    THEN vendor = "postgresql"
    ELSE Get(a.duration) <= Get(b.duration)

\* The urls of public, active mirrors with the default protocol.
mirror_urls ==
    {u \in UrlIds :
        /\ Mirror(u).public
        /\ Mirror(u).active
        /\ ProtocolDefault(urls[u].protocol)}

\* best_logs without last_sync__gte=min_sync_time.
best_logs_any_sync(min_check_time, min_sync_time) ==
    {l \in Rows :
        /\ l.is_success
        /\ l.check_time >= min_check_time
        /\ l.url \in mirror_urls}

\* The logs of the last batch of checks: successful, within five minutes of
\* the last check and twenty minutes of the last sync, of a url among
\* mirror_urls.
best_logs(min_check_time, min_sync_time) ==
    {l \in Rows :
        /\ l.is_success
        /\ l.check_time >= min_check_time
        /\ l.last_sync # None
        /\ Get(l.last_sync) >= min_sync_time
        /\ l.url \in mirror_urls}

\* The urls the fallback can return: a country-agnostic one first.
fallback_urls ==
    LET filtered_urls == {u \in mirror_urls : urls[u].country = ""}
    IN IF filtered_urls # {} THEN {Some(u) : u \in filtered_urls}
       ELSE IF mirror_urls # {} THEN {Some(u) : u \in mirror_urls}
       ELSE {None}

\* Every value get_mirror_url_for_download can return.
get_mirror_url_for_download(cutoff, vendor) ==
    LET cutoff_time == now - cutoff
        W == {l \in Rows : l.check_time >= cutoff_time}
        check_time__max == MaxCheckTime(W)
        last_sync__max == MaxLastSync(W)
        best == best_logs(Get(check_time__max) - FIVE_MINUTES,
                          Get(last_sync__max) - TWENTY_MINUTES)
        first == {l \in best : \A x \in best : DurationBefore(l, x, vendor)}
        fallback == {[exc |-> "", url |-> u] : u \in fallback_urls}
    IN IF check_time__max = None THEN fallback
       ELSE IF last_sync__max = None THEN {[exc |-> "TypeError"]}
       ELSE IF best # {} THEN {[exc |-> "", url |-> Some(l.url)] : l \in first}
       ELSE fallback

----------------------------------------------------------------------------
\* The arguments the calls are made with.

Cutoffs == {1, 3}
MirrorIdArgs == {None} \cup {Some(m) : m \in MirrorIds}
Vendors == {"sqlite", "postgresql"}

NoCall == [op |-> "none"]

----------------------------------------------------------------------------
\* Actions.

\* The mirror checker saves one MirrorLog row, checked at the current time.
AddLog(l) ==
    /\ call = NoCall
    /\ BagCardinality(logs) < MaxLogs
    /\ logs' = logs (+) SetToBag({l})
    /\ UNCHANGED <<now, mirrors, urls, call, result>>

\* Five minutes pass.
Tick ==
    /\ call = NoCall
    /\ now < MaxTime
    /\ now' = now + 1
    /\ UNCHANGED <<mirrors, urls, logs, call, result>>

\* The caller takes the return value (or the exception) of its call.
Return ==
    /\ call # NoCall
    /\ result # None
    /\ call' = NoCall
    /\ result' = None
    /\ UNCHANGED <<now, mirrors, urls, logs>>

GetMirrorStatuses ==
    \E cutoff \in Cutoffs, mirror_id \in MirrorIdArgs, vendor \in Vendors :
        /\ call = NoCall
        /\ call' = [op |-> "get_mirror_statuses", cutoff |-> cutoff,
                    mirror_id |-> mirror_id, vendor |-> vendor]
        /\ result' = Some(get_mirror_statuses(cutoff, mirror_id, vendor))
        /\ UNCHANGED <<now, mirrors, urls, logs>>

GetMirrorErrors ==
    \E cutoff \in Cutoffs, mirror_id \in MirrorIdArgs :
        /\ call = NoCall
        /\ call' = [op |-> "get_mirror_errors", cutoff |-> cutoff,
                    mirror_id |-> mirror_id]
        /\ \E r \in get_mirror_errors(cutoff, mirror_id) : result' = Some(r)
        /\ UNCHANGED <<now, mirrors, urls, logs>>

GetMirrorUrlForDownload ==
    \E cutoff \in Cutoffs, vendor \in Vendors :
        /\ call = NoCall
        /\ call' = [op |-> "get_mirror_url_for_download", cutoff |-> cutoff,
                    vendor |-> vendor]
        /\ \E r \in get_mirror_url_for_download(cutoff, vendor) :
              result' = Some(r)
        /\ UNCHANGED <<now, mirrors, urls, logs>>

\* annotate_url is applied to the two urls and the delay of the call.
AnnotateUrl ==
    /\ call.op = "annotate_url"
    /\ result = None
    /\ result' = Some([a |-> annotate_url(call.a, call.delay),
                       b |-> annotate_url(call.b, call.delay)])
    /\ UNCHANGED <<now, mirrors, urls, logs, call>>

----------------------------------------------------------------------------
\* The tables the specifications start from.

MirrorOk == [active |-> TRUE, public |-> TRUE, tier |-> 1]

\* Mirror 1 is active and public; mirror 2 is either, or neither flag is on.
MirrorTables ==
    {m \in [MirrorIds -> MirrorRows] :
        /\ m[1] = MirrorOk
        /\ m[2].tier = 2
        /\ m[2].active \/ m[2].public}

UrlTable(countries, protocols) ==
    [u \in UrlIds |-> [mirror_id |-> UrlOfMirror[u], url |-> UrlRank[u],
                       country |-> countries[u], protocol |-> protocols[u]]]

StatusUrls == UrlTable(<<"DE", "", "US">>, <<"http", "rsync", "http">>)

DownloadUrls ==
    {UrlTable(<<"", "DE", "">>, <<"http", "rsync", "http">>),
     UrlTable(<<"", "DE", "DE">>, <<"rsync", "http", "http">>),
     UrlTable(<<"", "DE", "">>, <<"rsync", "rsync", "http">>)}

----------------------------------------------------------------------------
\* The status pages: a check fails with or without a duration, or succeeds
\* with a duration and a last_sync, or succeeds without a duration.

StatusOutcomes ==
    {Outcome(FALSE, None, None, None),
     Outcome(FALSE, Some(1), None, None),
     Outcome(TRUE, Some(3), Some(1), None),
     Outcome(TRUE, None, Some(2), None)}

StatusCheck ==
    \E u \in UrlIds, o \in StatusOutcomes : AddLog(MirrorLog(u, now, o))

Init ==
    /\ now = 0
    /\ mirrors \in MirrorTables
    /\ urls = StatusUrls
    /\ logs = EmptyBag
    /\ call = NoCall
    /\ result = None

Next == StatusCheck \/ Tick \/ GetMirrorStatuses \/ Return

Spec == Init /\ [][Next]_vars

----------------------------------------------------------------------------
\* The error page: a check succeeds, or fails with one of two messages or
\* with none.

ErrorOutcomes ==
    {Outcome(TRUE, Some(1), Some(1), None),
     Outcome(FALSE, None, None, None),
     Outcome(FALSE, None, None, Some("timed out")),
     Outcome(FALSE, Some(1), None, Some("HTTP Error 404"))}

ErrorCheck ==
    \E u \in UrlIds, o \in ErrorOutcomes : AddLog(MirrorLog(u, now, o))

InitErrors ==
    /\ now = 0
    /\ mirrors \in MirrorTables
    /\ urls = StatusUrls
    /\ logs = EmptyBag
    /\ call = NoCall
    /\ result = None

NextErrors == ErrorCheck \/ Tick \/ GetMirrorErrors \/ Return

SpecErrors == InitErrors /\ [][NextErrors]_vars

----------------------------------------------------------------------------
\* The download URL: a check fails, or succeeds fast or slowly on a mirror
\* that has just synced or that synced twenty minutes before.

DownloadOutcomes ==
    {Outcome(FALSE, None, None, Some("timed out")),
     Outcome(TRUE, Some(1), Some(0), None),
     Outcome(TRUE, Some(2), Some(0), None),
     Outcome(TRUE, Some(1), Some(4), None),
     Outcome(TRUE, None, Some(0), None)}

DownloadCheck ==
    \E u \in UrlIds, o \in DownloadOutcomes : AddLog(MirrorLog(u, now, o))

InitDownload ==
    /\ now = 0
    /\ mirrors \in MirrorTables
    /\ urls \in DownloadUrls
    /\ logs = EmptyBag
    /\ call = NoCall
    /\ result = None

NextDownload == DownloadCheck \/ Tick \/ GetMirrorUrlForDownload \/ Return

SpecDownload == InitDownload /\ [][NextDownload]_vars

----------------------------------------------------------------------------
\* annotate_url as a function of the url's aggregates and the delay: two
\* urls with the same delay and durations and any two counts.

ScoreCounts ==
    {c \in (0..MaxChecks) \X {1, 2, 4, MaxChecks} :
        c[1] <= c[2] /\ c[1] \in {0, 1, c[2]}}

ScoreDelays ==
    {None, Some(timedelta(-3600, 1)), Some(timedelta(0, 1)),
     Some(timedelta(5401, 2)), Some(timedelta(90000, 1))}

ScoreAverages == {None, Some(RatZero), Some(Rat(1, 2)), Some(Rat(2, 1))}

ScoreStdDevs == {None, Some(RatZero), Some(Rat(1, 1))}

ScoreUrl(c, avg, stddev) ==
    [success_count |-> c[1], check_count |-> c[2],
     duration_avg |-> avg, duration_stddev |-> stddev]

InitScore ==
    /\ now = 0
    /\ mirrors \in {[m \in MirrorIds |-> MirrorOk]}
    /\ urls = StatusUrls
    /\ logs = EmptyBag
    /\ \E ca \in ScoreCounts, cb \in ScoreCounts, d \in ScoreDelays,
          avg \in ScoreAverages, stddev \in ScoreStdDevs :
            call = [op |-> "annotate_url",
                    a |-> ScoreUrl(ca, avg, stddev),
                    b |-> ScoreUrl(cb, avg, stddev),
                    delay |-> d]
    /\ result = None

NextScore == AnnotateUrl

SpecScore == InitScore /\ [][NextScore]_vars

----------------------------------------------------------------------------
\* What the claims speak of, stated from the tables.

Returned(op) == call.op = op /\ result # None /\ Get(result).exc = ""

\* The number of rows among the distinct rows S.
LogCount(S) == BagCardinality([l \in S |-> logs[l]])

InWindow(l) == l.check_time >= now - call.cutoff

WindowLogs(u) == {l \in DOMAIN logs : l.url = u /\ InWindow(l)}

OnOpenMirror(u) ==
    mirrors[urls[u].mirror_id].active /\ mirrors[urls[u].mirror_id].public

\* A delay sample of url u: a successful check in the window with a
\* last_sync.
DelaySamples(u) ==
    {l \in WindowLogs(u) : l.is_success /\ l.last_sync # None}

StatusUrlSet == {Get(result).urls[i] : i \in DOMAIN Get(result).urls}

RatEq(p, q) == p[1] * q[2] = q[1] * p[2]
RatOne == <<1, 1>>

----------------------------------------------------------------------------
\* C1: every url get_mirror_statuses returns belongs to an active, public
\* mirror, has a log checked at or after now - cutoff and, when a mirror_id
\* is given, belongs to that mirror; a url with no log in the window is not
\* returned.
C1_OnlyCheckedUrlsOfOpenMirrors ==
    Returned("get_mirror_statuses") =>
        \A x \in StatusUrlSet :
            /\ OnOpenMirror(x.id)
            /\ WindowLogs(x.id) # {}
            /\ call.mirror_id # None =>
                   urls[x.id].mirror_id = Get(call.mirror_id)

\* A call for one mirror returns a url while a logged url is left out.
C1_Witness ==
    /\ Returned("get_mirror_statuses")
    /\ call.mirror_id # None
    /\ StatusUrlSet # {}
    /\ \E l \in DOMAIN logs : \A x \in StatusUrlSet : x.id # l.url

----------------------------------------------------------------------------
\* The completion_pct of a returned url is success_count / check_count, the
\* counts being those of its logs in the window and of those among them
\* that have a duration.
PctIsRatio(x) ==
    RatEq(x.completion_pct,
          <<LogCount({l \in WindowLogs(x.id) : l.duration # None}),
            LogCount(WindowLogs(x.id))>>)

\* C2 as claimed: for every returned url, completion_pct lies in (0, 1] and
\* equals success_count / check_count.
C2_PctPositive ==
    Returned("get_mirror_statuses") =>
        \A x \in StatusUrlSet :
            /\ RatLess(RatZero, x.completion_pct)
            /\ ~RatLess(RatOne, x.completion_pct)
            /\ PctIsRatio(x)

\* C2 as amended: for every returned url, completion_pct lies in [0, 1] (it
\* is 0 when no log in the window has a duration) and equals
\* success_count / check_count.
C2_PctInUnitInterval ==
    Returned("get_mirror_statuses") =>
        \A x \in StatusUrlSet :
            /\ ~RatLess(x.completion_pct, RatZero)
            /\ ~RatLess(RatOne, x.completion_pct)
            /\ PctIsRatio(x)

\* A url is returned with half of its checks timed.
C2_Witness ==
    /\ Returned("get_mirror_statuses")
    /\ \E x \in StatusUrlSet : x.completion_pct = <<1, 2>>

----------------------------------------------------------------------------
\* C3: get_mirror_statuses produces, for every url, a score that is null
\* exactly when the url has no delay sample, and a delay that is null in the
\* same cases; no call ends in an error.
C3_ScoreNullIffNoDelaySample ==
    (call.op = "get_mirror_statuses" /\ result # None) =>
        /\ Get(result).exc = ""
        /\ \A x \in StatusUrlSet :
              /\ x.score = None <=> DelaySamples(x.id) = {}
              /\ x.delay = None <=> DelaySamples(x.id) = {}

----------------------------------------------------------------------------
\* The two annotated urls of SpecScore.
UrlA == Get(result).a
UrlB == Get(result).b

BothScored ==
    /\ call.op = "annotate_url"
    /\ result # None
    /\ call.delay # None
    /\ UrlA.exc = "" /\ UrlB.exc = ""

\* delay_hours + duration_avg + duration_stddev of the call.
ScoreSum ==
    RatAdd(RatAdd(<<Get(call.delay).days * 86400 + Get(call.delay).seconds,
                    3600>>,
                  Get(call.a.duration_avg)),
           Get(call.a.duration_stddev))

\* score * divisor = delay_hours + duration_avg + duration_stddev, where
\* divisor = completion_pct if completion_pct > 0, else 0.005.
ScoreIsQuotient(x) ==
    LET divisor == IF x.success_count > 0
                   THEN <<x.success_count, x.check_count>>
                   ELSE <<5, 1000>>
        score == Get(x.score)
    IN RatEq(<<score[1] * divisor[1], score[2] * divisor[2]>>, ScoreSum)

----------------------------------------------------------------------------
\* The microseconds of a timedelta.
Microseconds(td) ==
    (td.days * 86400 + td.seconds) * 1000000 + td.microseconds

\* The summary of a returned status, the first and last check being taken
\* over the logs S: num_checks is the largest number of logs in the window
\* of a returned url and last_check the latest of their check times (0 and
\* null when no url is returned); check_frequency is null when
\* num_checks <= 1 and else (max - min) / (num_checks - 1), in whole
\* microseconds.
SummaryOver(S) ==
    LET r == Get(result)
        ids == {x.id : x \in StatusUrlSet}
        counts == {LogCount(WindowLogs(u)) : u \in ids}
        times == {l.check_time : l \in UNION {WindowLogs(u) : u \in ids}}
        span == (MaxInt({l.check_time : l \in S})
                   - MinInt({l.check_time : l \in S}))
                * SecondsPerUnit * 1000000
    IN /\ r.num_checks = IF ids = {} THEN 0 ELSE MaxInt(counts)
       /\ r.last_check = IF ids = {} THEN None ELSE Some(MaxInt(times))
       /\ r.num_checks <= 1 => r.check_frequency = None
       /\ r.num_checks > 1 =>
            /\ r.check_frequency # None
            /\ Microseconds(Get(r.check_frequency)) * (r.num_checks - 1)
                 <= span
            /\ span < (Microseconds(Get(r.check_frequency)) + 1)
                        * (r.num_checks - 1)

\* C5 as claimed: the summary, with max and min check_time taken over all
\* the logs in the window.
C5_FrequencyOverAllLogs ==
    Returned("get_mirror_statuses") =>
        SummaryOver({l \in DOMAIN logs : InWindow(l)})

\* C5 as amended: the summary, with max and min check_time taken over the
\* logs in the window, and only over those of the given mirror when a
\* mirror_id is given.
C5_FrequencyOverLogsOfTheCall ==
    Returned("get_mirror_statuses") =>
        SummaryOver({l \in DOMAIN logs :
                        /\ InWindow(l)
                        /\ call.mirror_id # None =>
                               urls[l.url].mirror_id = Get(call.mirror_id)})

\* A status of mirror 1 with a check frequency of five minutes, while a url
\* of the other mirror was checked later than every url of mirror 1.
C5_Witness ==
    /\ Returned("get_mirror_statuses")
    /\ call.mirror_id = Some(1)
    /\ Get(result).num_checks = 2
    /\ Get(result).check_frequency
         = Some([days |-> 0, seconds |-> 300, microseconds |-> 0])
    /\ \E l \in DOMAIN logs :
          /\ InWindow(l)
          /\ urls[l.url].mirror_id = 2
          /\ \A k \in DOMAIN logs :
                urls[k.url].mirror_id = 1 => k.check_time < l.check_time

----------------------------------------------------------------------------
\* The freshness step of the download url, stated from the tables.

HasFreshestCheck == \E l \in DOMAIN logs : InWindow(l)
HasFreshestSync == \E l \in DOMAIN logs : InWindow(l) /\ l.last_sync # None

\* T and S: the freshest check_time and last_sync of the logs in the window.
FreshestCheck == MaxInt({l.check_time : l \in {x \in DOMAIN logs : InWindow(x)}})
FreshestSync ==
    MaxInt({Get(l.last_sync) :
              l \in {x \in DOMAIN logs : InWindow(x) /\ x.last_sync # None}})

\* A log qualifies when it is successful, checked at or after T - 5min,
\* synced at or after S - 20min, and its url is on a public, active mirror
\* with the default protocol.
QualifyingLogs ==
    IF ~(HasFreshestCheck /\ HasFreshestSync) THEN {}
    ELSE {l \in DOMAIN logs :
            /\ l.is_success
            /\ l.check_time >= FreshestCheck - 1
            /\ l.last_sync # None
            /\ Get(l.last_sync) >= FreshestSync - 4
            /\ OnOpenMirror(l.url)
            /\ urls[l.url].protocol = "http"}

\* No qualifying log has a duration smaller than that of l.
MinimumDuration(l) ==
    \A x \in QualifyingLogs :
        (l.duration # None /\ x.duration # None) =>
            Get(l.duration) <= Get(x.duration)

----------------------------------------------------------------------------
\* The urls the fallback is to choose from: the default-protocol urls of
\* public, active mirrors, the country-agnostic ones first; null when there
\* is none.
FallbackChoice ==
    LET open == {u \in UrlIds : OnOpenMirror(u) /\ urls[u].protocol = "http"}
        agnostic == {u \in open : urls[u].country = ""}
    IN IF agnostic # {} THEN {<<u>> : u \in agnostic}
       ELSE IF open # {} THEN {<<u>> : u \in open}
       ELSE {<<>>}

\* C7: with no log in the window, and likewise when no log qualifies in the
\* freshness step, get_mirror_url_for_download returns a country-agnostic
\* default-protocol url if there is one, else any default-protocol url, else
\* null.
C7_FallbackWhenNoLogQualifies ==
    (call.op = "get_mirror_url_for_download" /\ result # None
        /\ QualifyingLogs = {}) =>
        /\ Get(result).exc = ""
        /\ Get(result).url \in FallbackChoice

----------------------------------------------------------------------------
\* The error rows, stated from the tables.

FailedLogs ==
    {l \in DOMAIN logs : ~l.is_success /\ InWindow(l) /\ OnOpenMirror(l.url)}

\* The failed logs that share url, country, protocol, tier and message with
\* l: country, protocol and tier are those of the url.
GroupOf(l) == {k \in FailedLogs : k.url = l.url /\ k.error = l.error}

RowIsOf(r, l) ==
    /\ r.url__url = urls[l.url].url
    /\ r.url__country = urls[l.url].country
    /\ r.url__protocol__protocol = urls[l.url].protocol
    /\ r.url__mirror__tier = mirrors[urls[l.url].mirror_id].tier
    /\ r.error = l.error

\* The rows are one per group of the failed logs L, each with the number of
\* logs of its group and the latest of their check times, ordered by
\* last_occurred descending, then error_count descending.
ErrorRowsOf(rows, L) ==
    /\ \A l \in L :
          /\ Cardinality({i \in DOMAIN rows : RowIsOf(rows[i], l)}) = 1
          /\ \A i \in DOMAIN rows :
                RowIsOf(rows[i], l) =>
                    /\ rows[i].error_count = LogCount(GroupOf(l))
                    /\ rows[i].last_occurred
                         = MaxInt({k.check_time : k \in GroupOf(l)})
    /\ \A i \in DOMAIN rows : \E l \in L : RowIsOf(rows[i], l)
    /\ \A i, j \in DOMAIN rows :
          i < j =>
            \/ rows[i].last_occurred > rows[j].last_occurred
            \/ /\ rows[i].last_occurred = rows[j].last_occurred
               /\ rows[i].error_count >= rows[j].error_count

\* C8: get_mirror_errors returns one row per group of failed logs, with
\* error_count the number of logs of the group (also when the message is
\* null) and last_occurred the latest check_time, ordered by last_occurred
\* descending, then error_count descending.
C8_OneRowPerGroupCountingItsLogs ==
    Returned("get_mirror_errors") =>
        ErrorRowsOf(Get(result).errors, FailedLogs)

\* C9: get_mirror_errors called with a mirror_id does not raise and returns
\* the error rows of the urls of that mirror.
C9_ErrorsOfOneMirror ==
    (call.op = "get_mirror_errors" /\ result # None
        /\ call.mirror_id # None /\ Get(call.mirror_id) # 0) =>
        /\ Get(result).exc = ""
        /\ ErrorRowsOf(Get(result).errors,
                       {l \in FailedLogs :
                           urls[l.url].mirror_id = Get(call.mirror_id)})

----------------------------------------------------------------------------
\* C10: get_mirror_url_for_download never raises: it returns a MirrorUrl or
\* null, and when every log in the window has a null last_sync it returns
\* what the fallback chooses.
C10_DownloadNeverRaises ==
    (call.op = "get_mirror_url_for_download" /\ result # None) =>
        /\ Get(result).exc = ""
        /\ Get(result).url \in {<<>>} \cup {<<u>> : u \in UrlIds}
        /\ (HasFreshestCheck /\ ~HasFreshestSync) =>
               Get(result).url \in FallbackChoice

====
